---- MODULE Spec2Model ----
(***************************************************************************)
(* Model of launchconditions.py: the task tree, the indentation codec      *)
(* (parse_tasks_from_file / save_tasks_to_file), status propagation and    *)
(* the handlers of LaunchConditionsApp.                                    *)
(*                                                                         *)
(* Text is a sequence of atoms.  An atom is one character (" ", "\t",      *)
(* "\n", ":", "#") or a word of characters that are none of these ("a",    *)
(* "OPEN", ...); a Python str is the sequence of its atoms.  Task objects  *)
(* live in `heap`, a sequence of records; a Task reference is its index,   *)
(* and 0 is None.                                                          *)
(***************************************************************************)
EXTENDS Integers, Sequences, FiniteSets, TLC

VARIABLES disk, fs, heap, roots, mode, error, dialog, notified, last

vars == <<disk, fs, heap, roots, mode, error, dialog, notified, last>>

(***************************************************************************)
(* Bounds of the model.                                                    *)
(***************************************************************************)
MaxLines == 3
MaxAppLines == 3
MaxTasks == 3

(***************************************************************************)
(* Program constants.                                                      *)
(***************************************************************************)
STATUS_CYCLE == << <<"OPEN">>, <<"IN_PROGRESS">>, <<"DONE">> >>
STATUS_DEFAULT == <<"OPEN">>
OPEN == <<"OPEN">>
IN_PROGRESS == <<"IN_PROGRESS">>
DONE == <<"DONE">>
IndentWidth == 4
None == 0

(***************************************************************************)
(* str helpers.                                                            *)
(***************************************************************************)
IsSpace(c) == c \in {" ", "\t", "\n"}

RECURSIVE LStrip(_)
LStrip(s) == IF s # <<>> /\ IsSpace(Head(s)) THEN LStrip(Tail(s)) ELSE s

RECURSIVE RStrip(_)
RStrip(s) ==
    IF s # <<>> /\ IsSpace(s[Len(s)]) THEN RStrip(SubSeq(s, 1, Len(s) - 1)) ELSE s

\* str.strip()
Strip(s) == RStrip(LStrip(s))

\* str.rstrip("\n")
RECURSIVE RStripNL(_)
RStripNL(s) ==
    IF s # <<>> /\ s[Len(s)] = "\n" THEN RStripNL(SubSeq(s, 1, Len(s) - 1)) ELSE s

\* position of the first c in s, 0 when there is none
IndexOf(s, c) ==
    IF \E i \in 1..Len(s) : s[i] = c
    THEN CHOOSE i \in 1..Len(s) : s[i] = c /\ \A j \in 1..(i - 1) : s[j] # c
    ELSE 0

Contains(s, c) == IndexOf(s, c) # 0

\* f.readlines(): the lines of the text, each with its terminating "\n"
RECURSIVE ReadLines(_)
ReadLines(text) ==
    IF text = <<>> THEN <<>>
    ELSE LET i == IndexOf(text, "\n")
         IN  IF i = 0 THEN <<text>>
             ELSE <<SubSeq(text, 1, i)>> \o ReadLines(SubSeq(text, i + 1, Len(text)))

\* re.match(r"^(\s*)(.*)$", raw): group(1) and group(2)
IndentOf(raw) == SubSeq(raw, 1, Len(raw) - Len(LStrip(raw)))
ContentOf(raw) == LStrip(raw)

\* indent.replace("\t", "    ")
RECURSIVE ExpandTabs(_)
ExpandTabs(s) ==
    IF s = <<>> THEN <<>>
    ELSE (IF Head(s) = "\t" THEN <<" ", " ", " ", " ">> ELSE <<Head(s)>>)
         \o ExpandTabs(Tail(s))

DepthOf(raw) == Len(ExpandTabs(IndentOf(raw))) \div IndentWidth

\* content.split(":", 1)
SplitFieldsOnce(content) ==
    LET i == IndexOf(content, ":")
    IN  IF i = 0 THEN <<content>>
        ELSE <<SubSeq(content, 1, i - 1), SubSeq(content, i + 1, Len(content))>>

\* content.split(":", 2)
SplitFields(content) ==
    LET i == IndexOf(content, ":")
    IN  IF i = 0 THEN <<content>>
        ELSE LET first == SubSeq(content, 1, i - 1)
                 rest  == SubSeq(content, i + 1, Len(content))
                 j     == IndexOf(rest, ":")
             IN  IF j = 0 THEN <<first, rest>>
                 ELSE <<first, SubSeq(rest, 1, j - 1), SubSeq(rest, j + 1, Len(rest))>>

\* " " * n
RECURSIVE Spaces(_)
Spaces(n) == IF n <= 0 THEN <<>> ELSE <<" ">> \o Spaces(n - 1)

\* "\n".join(lines)
RECURSIVE JoinLines(_)
JoinLines(lines) ==
    IF lines = <<>> THEN <<>>
    ELSE IF Len(lines) = 1 THEN lines[1]
    ELSE lines[1] \o <<"\n">> \o JoinLines(Tail(lines))

(***************************************************************************)
(* Task.                                                                   *)
(***************************************************************************)
Task(name, status, due, depth, parent) ==
    [name |-> name, status |-> status, due |-> due, children |-> <<>>,
     parent |-> parent, depth |-> depth]

Ids(h) == 1..Len(h)

IsLeaf(h, t) == h[t].children = <<>>

AllChildren(h, t, s) == \A i \in 1..Len(h[t].children) : h[h[t].children[i]].status = s

\* Task.recalc_status_from_children
RecalcStatusFromChildren(h, t) ==
    IF h[t].children = <<>> THEN h
    ELSE IF AllChildren(h, t, DONE) THEN [h EXCEPT ![t].status = DONE]
    ELSE IF AllChildren(h, t, OPEN) THEN [h EXCEPT ![t].status = OPEN]
    ELSE [h EXCEPT ![t].status = IN_PROGRESS]

\* propagate_up without its call of self.parent.propagate_up()
PropagateUpNoParent(h, t) ==
    IF h[t].children # <<>> THEN RecalcStatusFromChildren(h, t) ELSE h

\* propagate_up that ends at the parent: recalc_status_from_children() of
\* self.parent instead of self.parent.propagate_up()
PropagateUpOneLevel(h, t) ==
    LET h1 == IF h[t].children # <<>> THEN RecalcStatusFromChildren(h, t) ELSE h
    IN  IF h1[t].parent # None THEN RecalcStatusFromChildren(h1, h1[t].parent) ELSE h1

\* Task.propagate_up
RECURSIVE PropagateUp(_, _)
\* propagate_up and recalc_status_from_children without their tests of
\* self.children: all() over no children is True
PropagateUpUnguarded(h, t) ==
    LET h1 == IF AllChildren(h, t, DONE) THEN [h EXCEPT ![t].status = DONE]
              ELSE IF AllChildren(h, t, OPEN) THEN [h EXCEPT ![t].status = OPEN]
              ELSE [h EXCEPT ![t].status = IN_PROGRESS]
    IN  IF h1[t].parent # None THEN PropagateUp(h1, h1[t].parent) ELSE h1

PropagateUp(h, t) ==
    LET h1 == IF h[t].children # <<>> THEN RecalcStatusFromChildren(h, t) ELSE h
    IN  IF h1[t].parent # None THEN PropagateUp(h1, h1[t].parent) ELSE h1

(***************************************************************************)
(* parse_tasks_from_file.                                                  *)
(***************************************************************************)
NoError == [kind |-> "none", raw |-> <<>>]
ValueError(msg, raw) == [kind |-> msg, raw |-> raw]

\* the loop's locals before the first line
ParseStart == [heap |-> <<>>, tasks |-> <<>>, stack |-> <<>>, err |-> NoError]

\* a line the loop skips: blank, or a comment
IsSkipped(raw) == Strip(raw) = <<>> \/ Head(Strip(raw)) = "#"

\* parent = stack[-1]
ParentOnStackTop(stack, depth) == stack[Len(stack)]

\* parent = stack[depth - 1]  (Python counts from 0, the model from 1)
ParentOnStack(stack, depth) == stack[depth]

\* "if depth >= len(stack)"
TooDeepStrict(stack, depth) == depth >= Len(stack)

\* "if depth > len(stack)": raise "Nested too deeply"
TooDeep(stack, depth) == depth > Len(stack)

\* the stack after the new task is attached at depth >= 1
NextStack(stack, depth, t) ==
    IF depth = Len(stack) THEN Append(stack, t)
    ELSE SubSeq([stack EXCEPT ![depth + 1] = t], 1, depth + 1)

\* "status.strip() or STATUS_DEFAULT"
StatusField(field) == IF Strip(field) = <<>> THEN STATUS_DEFAULT ELSE Strip(field)

\* one iteration of "for line in lines"
ParseLine(st, line) ==
    LET raw   == RStripNL(line)
        depth == DepthOf(raw)
        parts == SplitFields(ContentOf(raw))
        t     == Len(st.heap) + 1
    IN  IF IsSkipped(raw) THEN st
        ELSE IF Len(parts) # 3 THEN [st EXCEPT !.err = ValueError("Invalid line", raw)]
        ELSE IF depth = 0 THEN
            [st EXCEPT !.heap  = Append(@, Task(Strip(parts[1]), StatusField(parts[2]),
                                                Strip(parts[3]), depth, None)),
                       !.tasks = Append(@, t),
                       !.stack = <<t>>]
        ELSE IF TooDeep(st.stack, depth) THEN
            [st EXCEPT !.err = ValueError("Nested too deeply", raw)]
        ELSE LET parent == ParentOnStack(st.stack, depth)
                 new    == Task(Strip(parts[1]), StatusField(parts[2]),
                                Strip(parts[3]), depth, parent)
             IN  [st EXCEPT !.heap  = [Append(@, new) EXCEPT
                                          ![parent].children = Append(@, t)],
                            !.stack = NextStack(@, depth, t)]

\* the loop: a raise ends it
RECURSIVE ParseLines(_, _)
ParseLines(st, lines) ==
    IF lines = <<>> \/ st.err # NoError THEN st
    ELSE ParseLines(ParseLine(st, Head(lines)), Tail(lines))

\* walk(task_to_walk): children first, then the task itself
RECURSIVE WalkTask(_, _)
RECURSIVE WalkChildren(_, _)
\* walk without "if task_to_walk.children: recalc_status_from_children()"
WalkTaskChildrenOnly(h, t) == WalkChildren(h, h[t].children)

WalkTask(h, t) ==
    LET h1 == WalkChildren(h, h[t].children)
    IN  IF h1[t].children # <<>> THEN RecalcStatusFromChildren(h1, t) ELSE h1
WalkChildren(h, cs) ==
    IF cs = <<>> THEN h ELSE WalkChildren(WalkTask(h, Head(cs)), Tail(cs))

\* the loaded tasks without the walk
WalkAllSkipped(h, tasks) == h

\* "for t in tasks: walk(t)"
WalkAll(h, tasks) == WalkChildren(h, tasks)

\* parse_tasks_from_file without "except FileNotFoundError: return []"
ParseTasksFromFileNoCatch(d, f) ==
    IF ~d.exists \/ f = "unreadable"
    THEN [err |-> ValueError("OSError", <<>>), heap |-> <<>>, roots |-> <<>>]
    ELSE LET st == ParseLines(ParseStart, ReadLines(d.text))
         IN  IF st.err # NoError THEN [err |-> st.err, heap |-> <<>>, roots |-> <<>>]
             ELSE [err |-> NoError, heap |-> WalkAll(st.heap, st.tasks), roots |-> st.tasks]

\* parse_tasks_from_file(path) on a file system in condition f ("unreadable":
\* open(path, "r") of an existing file raises PermissionError).  The result
\* is the returned forest, or the exception that leaves the function.
ParseTasksFromFile(d, f) ==
    IF ~d.exists THEN [err |-> NoError, heap |-> <<>>, roots |-> <<>>]
    ELSE IF f = "unreadable" THEN [err |-> ValueError("OSError", <<>>), heap |-> <<>>, roots |-> <<>>]
    ELSE LET st == ParseLines(ParseStart, ReadLines(d.text))
         IN  IF st.err # NoError THEN [err |-> st.err, heap |-> <<>>, roots |-> <<>>]
             ELSE [err |-> NoError, heap |-> WalkAll(st.heap, st.tasks), roots |-> st.tasks]

(***************************************************************************)
(* flatten_tasks and save_tasks_to_file.                                   *)
(***************************************************************************)
RECURSIVE FlattenTask(_, _)
RECURSIVE FlattenSeq(_, _)
\* walk with "out.append(t)" after the loop over t.children
FlattenTaskChildrenFirst(h, t) == FlattenSeq(h, h[t].children) \o <<t>>

FlattenTask(h, t) == <<t>> \o FlattenSeq(h, h[t].children)
FlattenSeq(h, ts) ==
    IF ts = <<>> THEN <<>> ELSE FlattenTask(h, Head(ts)) \o FlattenSeq(h, Tail(ts))

flatten_tasks(h, rs) == FlattenSeq(h, rs)

\* indent = " " * t.depth
SaveIndentNarrow(depth) == Spaces(depth)

\* indent = " " * 4 * t.depth
SaveIndent(depth) == Spaces(IndentWidth * depth)

\* f"{indent}{t.name}:{t.status}:{t.due}"
SaveLine(task) ==
    SaveIndent(task.depth) \o task.name \o <<":">> \o task.status \o <<":">> \o task.due

\* "\n".join(lines) + "\n"
SaveText(h, rs) ==
    LET flat == flatten_tasks(h, rs)
    IN  JoinLines([i \in 1..Len(flat) |-> SaveLine(h[flat[i]])]) \o <<"\n">>

File(text) == [exists |-> TRUE, text |-> text]
NoFile == [exists |-> FALSE, text |-> <<>>]

\* The conditions of the file system, fixed for a run of the program: "ok";
\* "unreadable" (the file cannot be opened for reading); "readonly"
\* (open(path, "w") raises OSError, nothing is touched); "full" (open() has
\* truncated the file, then the write raises OSError before any text
\* reached the file).
Conditions == {"ok", "unreadable", "readonly", "full"}

\* does save_tasks_to_file raise OSError?
SaveRaises(f) == f \in {"readonly", "full"}

\* save_tasks_to_file(path, roots): the file afterwards
SaveTasksToFile(d, h, rs, f) ==
    CASE f = "readonly" -> d
      [] f = "full"     -> File(<<>>)
      [] OTHER          -> File(SaveText(h, rs))

(***************************************************************************)
(* LaunchConditionsApp.                                                    *)
(***************************************************************************)
\* get_selected_task(): idx is list_view.index, None or a position of the
\* list (the model counts positions from 1)
GetSelectedTask(h, rs, idx) ==
    LET tasks == flatten_tasks(h, rs)
    IN  IF idx = None \/ ~(1 <= idx /\ idx <= Len(tasks)) THEN None ELSE tasks[idx]

\* what the user can have selected: nothing, or a row of the list
Selections == {None} \cup (1..Len(heap))

\* STATUS_CYCLE.index(task.status), 0 on ValueError
CycleIndex(s) ==
    IF \E i \in 1..Len(STATUS_CYCLE) : STATUS_CYCLE[i] = s
    THEN (CHOOSE i \in 1..Len(STATUS_CYCLE) : STATUS_CYCLE[i] = s) - 1
    ELSE 0

\* STATUS_CYCLE[min(idx + 1, len(STATUS_CYCLE) - 1)]
NextStatusNoWrap(s) ==
    STATUS_CYCLE[(IF CycleIndex(s) + 1 < Len(STATUS_CYCLE) THEN CycleIndex(s) + 1
                  ELSE Len(STATUS_CYCLE) - 1) + 1]

\* STATUS_CYCLE[(idx + 1) % len(STATUS_CYCLE)]
NextStatus(s) == STATUS_CYCLE[((CycleIndex(s) + 1) % Len(STATUS_CYCLE)) + 1]

\* action_toggle_status without "if not task.is_leaf(): return"
ToggleReturnsNoLeafCheck(h, task) == task = None

\* the early returns of action_toggle_status
ToggleReturns(h, task) == task = None \/ ~IsLeaf(h, task)

\* action_toggle_status on the tree: the step along the cycle, propagate_up
ToggleStatus(h, task) ==
    IF ToggleReturns(h, task) THEN h
    ELSE PropagateUp([h EXCEPT ![task].status = NextStatus(@)], task)

\* depth=parent.depth
AddedDepthSame(h, parent) == h[parent].depth

\* depth=parent.depth + 1
AddedDepth(h, parent) == h[parent].depth + 1

\* _add_subtask_worker with parent.children.insert(0, new)
AddSubtaskHeapFirstChild(h, parent, name, due) ==
    LET new == Len(h) + 1
    IN  IF parent = None
        THEN PropagateUp(Append(h, Task(name, OPEN, due, 0, None)), new)
        ELSE PropagateUp([Append(h, Task(name, OPEN, due, AddedDepth(h, parent), parent))
                             EXCEPT ![parent].children = <<new>> \o @], new)

\* _add_subtask_worker after the dialog returned (name, due): the new tree
AddSubtaskHeap(h, parent, name, due) ==
    LET new == Len(h) + 1
    IN  IF parent = None
        THEN PropagateUp(Append(h, Task(name, OPEN, due, 0, None)), new)
        ELSE PropagateUp([Append(h, Task(name, OPEN, due, AddedDepth(h, parent), parent))
                             EXCEPT ![parent].children = Append(@, new)], new)
AddSubtaskRoots(h, rs, parent) == IF parent = None THEN Append(rs, Len(h) + 1) ELSE rs

\* save_with_handling(show_success): the notifications it issues
SaveNotes(show_success, f) ==
    IF SaveRaises(f) THEN <<"ERROR saving">>
    ELSE IF show_success THEN <<"Saved to">> ELSE <<>>

\* its return value
SaveWithHandling(f) == ~SaveRaises(f)
SaveResult(f) == IF SaveWithHandling(f) THEN "saved" ELSE "OSError"

\* on_button_pressed("ok") with the check "if ':' in name"
DialogVerdictNameOnly(name, due) ==
    IF Strip(name) = <<>> THEN "empty"
    ELSE IF Contains(Strip(name), ":") THEN "colon"
    ELSE "accepted"

\* NewTaskScreen.on_button_pressed("ok"): what it does with the two inputs
DialogVerdict(name, due) ==
    IF Strip(name) = <<>> THEN "empty"
    ELSE IF Contains(Strip(name), ":") \/ Contains(Strip(due), ":") THEN "colon"
    ELSE "accepted"

Closed == [open |-> FALSE, parent |-> None]
Call(op, task, result) == [op |-> op, task |-> task, result |-> result]

(***************************************************************************)
(* Inputs.                                                                 *)
(***************************************************************************)
SeqsUpTo(S, n) == UNION {[1..k -> S] : k \in 0..n}

\* every line followed by "\n"
RECURSIVE FileText(_)
FileText(lines) ==
    IF lines = <<>> THEN <<>> ELSE Head(lines) \o <<"\n">> \o FileText(Tail(lines))

TaskLine(indent, name, status, due) == indent \o name \o <<":">> \o status \o <<":">> \o due

AppLines ==
    {TaskLine(Spaces(n), <<"a">>, s, <<>>) : n \in {0, 4, 8}, s \in {DONE, <<"x">>}}

AppDisks == {NoFile} \cup {File(FileText(ls)) : ls \in SeqsUpTo(AppLines, MaxAppLines)}

\* lines of the files the codec is run on: task lines at depths 0..2 (spaces,
\* tabs, an indent that is no multiple of 4, blanks around the fields, an
\* empty status, a status outside STATUS_CYCLE, a ':' in due, an empty
\* name), lines with fewer than two ':', comments and blank lines
CodecLines ==
    { <<"a", ":", "OPEN", ":">>,
      <<"b", ":", ":">>,
      <<" ", "a", " ", ":", " ", "DONE", " ", ":", " ", "d", " ">>,
      <<":", "OPEN", ":">>,
      Spaces(4) \o <<"a", ":", "DONE", ":">>,
      <<"\t", "b", ":", "x", ":", "d", ":", "d">>,
      Spaces(5) \o <<"a", ":", "OPEN", ":">>,
      Spaces(8) \o <<"a", ":", "x", ":">>,
      <<"\t">> \o Spaces(4) \o <<"b", ":", "DONE", ":">>,
      <<"a">>,
      Spaces(4) \o <<"a", ":", "OPEN">>,
      Spaces(8) \o <<"b">>,
      <<"#", " ", "a", ":", "OPEN", ":">>,
      Spaces(4) \o <<"#">>,
      <<>>,
      <<" ", " ">> }

CodecDisks == {NoFile} \cup {File(FileText(ls)) : ls \in SeqsUpTo(CodecLines, MaxLines)}

\* what the user types into the dialog's two inputs
TypedNames == {<<>>, <<" ", "b", " ">>, <<"#", "b">>, <<"b", ":">>}
TypedDues == {<<>>, <<"d", ":">>}

(***************************************************************************)
(* The handlers.                                                           *)
(***************************************************************************)
Init ==
    /\ disk \in AppDisks
    /\ fs \in Conditions
    /\ heap = <<>>
    /\ roots = <<>>
    /\ mode = "new"
    /\ error = NoError
    /\ dialog = Closed
    /\ notified = <<>>
    /\ last = Call("init", None, "none")

\* on_mount: a raise of parse_tasks_from_file leaves the handler
OnMount ==
    /\ mode = "new"
    /\ LET r == ParseTasksFromFile(disk, fs)
       IN  IF r.err = NoError
           THEN /\ heap' = r.heap
                /\ roots' = r.roots
                /\ mode' = "running"
                /\ error' = NoError
                /\ last' = Call("on_mount", None, "ok")
           ELSE /\ mode' = "crashed"
                /\ error' = r.err
                /\ last' = Call("on_mount", None, "raised")
                /\ UNCHANGED <<heap, roots>>
    /\ UNCHANGED <<disk, fs, dialog, notified>>

Idle == mode = "running" /\ ~dialog.open

\* action_toggle_status
ActionToggleStatus ==
    /\ Idle
    /\ \E idx \in Selections :
         LET task == GetSelectedTask(heap, roots, idx)
         IN  IF ToggleReturns(heap, task)
             THEN /\ notified' = <<>>
                  /\ last' = Call("toggle", task, "return")
                  /\ UNCHANGED <<disk, heap>>
             ELSE /\ heap' = ToggleStatus(heap, task)
                  /\ disk' = SaveTasksToFile(disk, heap', roots, fs)
                  /\ notified' = SaveNotes(FALSE, fs)
                  /\ last' = Call("toggle", task, SaveResult(fs))
    /\ UNCHANGED <<fs, roots, mode, error, dialog>>

\* action_add_subtask: the worker starts and shows NewTaskScreen
ActionAddSubtask ==
    /\ Idle
    /\ Len(heap) < MaxTasks
    /\ \E idx \in Selections :
         LET parent == GetSelectedTask(heap, roots, idx)
         IN  /\ dialog' = [open |-> TRUE, parent |-> parent]
             /\ last' = Call("add", parent, "dialog")
    /\ notified' = <<>>
    /\ UNCHANGED <<disk, fs, heap, roots, mode, error>>

\* NewTaskScreen "ok", and on dismiss((name, due)) the rest of _add_subtask_worker
NewTaskOk ==
    /\ mode = "running"
    /\ dialog.open
    /\ \E name \in TypedNames, due \in TypedDues :
         LET verdict == DialogVerdict(name, due)
             parent  == dialog.parent
         IN  IF verdict = "accepted"
             THEN /\ heap' = AddSubtaskHeap(heap, parent, Strip(name), Strip(due))
                  /\ roots' = AddSubtaskRoots(heap, roots, parent)
                  /\ disk' = SaveTasksToFile(disk, heap', roots', fs)
                  /\ dialog' = Closed
                  /\ notified' = SaveNotes(FALSE, fs)
                  /\ last' = Call("ok", parent, SaveResult(fs))
             ELSE /\ notified' = IF verdict = "colon" THEN <<"':' is not allowed">> ELSE <<>>
                  /\ last' = Call("ok", parent, verdict)
                  /\ UNCHANGED <<disk, heap, roots, dialog>>
    /\ UNCHANGED <<fs, mode, error>>

\* NewTaskScreen "cancel": dismiss(None), the worker returns
NewTaskCancel ==
    /\ mode = "running"
    /\ dialog.open
    /\ dialog' = Closed
    /\ notified' = <<>>
    /\ last' = Call("cancel", dialog.parent, "return")
    /\ UNCHANGED <<disk, fs, heap, roots, mode, error>>

\* action_save
ActionSave ==
    /\ Idle
    /\ disk' = SaveTasksToFile(disk, heap, roots, fs)
    /\ notified' = SaveNotes(TRUE, fs) \o <<"Saved to">>
    /\ last' = Call("save", None, SaveResult(fs))
    /\ UNCHANGED <<fs, heap, roots, mode, error, dialog>>

\* action_quit
ActionQuit ==
    /\ Idle
    /\ disk' = SaveTasksToFile(disk, heap, roots, fs)
    /\ notified' = SaveNotes(FALSE, fs)
    /\ last' = Call("quit", None, SaveResult(fs))
    /\ mode' = "exited"
    /\ UNCHANGED <<fs, heap, roots, error, dialog>>

Next ==
    \/ OnMount
    \/ ActionToggleStatus
    \/ ActionAddSubtask
    \/ NewTaskOk
    \/ NewTaskCancel
    \/ ActionSave
    \/ ActionQuit

Spec == Init /\ [][Next]_vars

\* The codec alone: the program is started on a file, and saves it.
InitCodec ==
    /\ disk \in CodecDisks
    /\ fs \in {"ok", "unreadable"}
    /\ heap = <<>>
    /\ roots = <<>>
    /\ mode = "new"
    /\ error = NoError
    /\ dialog = Closed
    /\ notified = <<>>
    /\ last = Call("init", None, "none")

NextCodec ==
    \/ OnMount
    \/ ActionSave
    \/ ActionQuit

SpecCodec == InitCodec /\ [][NextCodec]_vars

(***************************************************************************)
(* Vocabulary of the properties.                                           *)
(***************************************************************************)
Statuses == {OPEN, IN_PROGRESS, DONE}

HasChildren(t) == heap[t].children # <<>>
ChildrenOf(t) == {heap[t].children[i] : i \in 1..Len(heap[t].children)}

RECURSIVE AncestorsOf(_, _)
AncestorsOf(h, t) ==
    IF h[t].parent = None THEN {} ELSE {h[t].parent} \cup AncestorsOf(h, h[t].parent)

\* a forest up to the identity of its Task objects: the tasks in pre-order,
\* parent and children given as positions of that order
PositionIn(seq, t) == CHOOSE i \in 1..Len(seq) : seq[i] = t
Forest(h, rs) ==
    LET flat == flatten_tasks(h, rs)
    IN  [i \in 1..Len(flat) |->
           [name     |-> h[flat[i]].name,
            status   |-> h[flat[i]].status,
            due      |-> h[flat[i]].due,
            depth    |-> h[flat[i]].depth,
            parent   |-> IF h[flat[i]].parent = None THEN None
                         ELSE PositionIn(flat, h[flat[i]].parent),
            children |-> [k \in 1..Len(h[flat[i]].children) |->
                            PositionIn(flat, h[flat[i]].children[k])]]]
RootPositions(h, rs) ==
    LET flat == flatten_tasks(h, rs)
    IN  [k \in 1..Len(rs) |-> PositionIn(flat, rs[k])]

\* the task lines of a text, in file order, without their "\n": the lines
\* that are neither blank nor comments
RECURSIVE KeepTaskLines(_)
KeepTaskLines(lines) ==
    IF lines = <<>> THEN <<>>
    ELSE (IF IsSkipped(RStripNL(Head(lines))) THEN <<>> ELSE <<RStripNL(Head(lines))>>)
         \o KeepTaskLines(Tail(lines))
TaskLines(text) == KeepTaskLines(ReadLines(text))

Colons(raw) == Cardinality({i \in 1..Len(raw) : raw[i] = ":"})

\* task line i has fewer than two ':'
FewColons(L, i) == Colons(L[i]) < 2

\* task line i has a depth d > 0 and no open task at depth d - 1: it is more
\* than one level deeper than the task line before it, or it is the first
\* task line and not at depth 0
TooDeepLine(L, i) ==
    DepthOf(L[i]) > (IF i = 1 THEN 0 ELSE DepthOf(L[i - 1]) + 1)

Offends(L, i) == FewColons(L, i) \/ TooDeepLine(L, i)
HasOffender(L) == \E i \in 1..Len(L) : Offends(L, i)
FirstOffender(L) == CHOOSE i \in 1..Len(L) : Offends(L, i) /\ \A j \in 1..(i - 1) : ~Offends(L, j)

FormatError == error.kind \in {"Invalid line", "Nested too deeply"}

\* the state on_mount leaves behind when it read the file
Mounted == last.op = "on_mount" /\ fs # "unreadable" /\ disk.exists

(***************************************************************************)
(* C1: every task that has children is DONE iff all its direct children    *)
(* are DONE, OPEN iff all its direct children are OPEN, and IN_PROGRESS    *)
(* otherwise, in every state after the load and any toggles and adds.      *)
(***************************************************************************)
StatusRollUp ==
    \A t \in Ids(heap) :
        HasChildren(t) =>
            LET allDone == \A c \in ChildrenOf(t) : heap[c].status = DONE
                allOpen == \A c \in ChildrenOf(t) : heap[c].status = OPEN
            IN  /\ heap[t].status = DONE <=> allDone
                /\ heap[t].status = OPEN <=> allOpen
                /\ (~allDone /\ ~allOpen) => heap[t].status = IN_PROGRESS

\* a leaf was toggled, and a task that is none of its ancestors has a child
\* and the status OPEN, which no line of the loaded file carried: earlier
\* toggles of its child gave it that status
StatusRollUpWitness ==
    /\ last.op = "toggle"
    /\ last.result = "saved"
    /\ \E t \in Ids(heap) :
          /\ HasChildren(t)
          /\ t \notin AncestorsOf(heap, last.task)
          /\ heap[t].status = OPEN

(***************************************************************************)
(* C2: saving a loaded forest and loading the written file gives an equal  *)
(* forest: the same roots in the same order and, node for node, the same   *)
(* name, status, due, depth, parent and children order.                    *)
(***************************************************************************)
RoundTrip ==
    (last.op \in {"save", "quit"} /\ last.result = "saved") =>
        LET again == ParseTasksFromFile(disk, "ok")
        IN  /\ again.err = NoError
            /\ Forest(again.heap, again.roots) = Forest(heap, roots)
            /\ RootPositions(again.heap, again.roots) = RootPositions(heap, roots)

\* a saved forest with a task that has children and a leaf with a ':' in
\* its due and a status outside STATUS_CYCLE
RoundTripWitness ==
    /\ last.op = "save"
    /\ last.result = "saved"
    /\ \E t \in Ids(heap) : HasChildren(t)
    /\ \E t \in Ids(heap) : Contains(heap[t].due, ":") /\ heap[t].status \notin Statuses

(***************************************************************************)
(* C3: a save that fails leaves the file, here one that had content, as it *)
(* was before the call.                                                    *)
(***************************************************************************)
FailedSaveLeavesFile ==
    [][(last'.result = "OSError" /\ disk.exists /\ disk.text # <<>>) => disk' = disk]_vars

(***************************************************************************)
(* C4 as claimed: a toggle of a leaf moves its status one step along       *)
(* OPEN -> IN_PROGRESS -> DONE -> OPEN, so three toggles of a leaf restore *)
(* its status.                                                             *)
(***************************************************************************)
CycleStep(s) ==
    CASE s = OPEN        -> IN_PROGRESS
      [] s = IN_PROGRESS -> DONE
      [] s = DONE        -> OPEN

ToggledLeaf == last'.op = "toggle" /\ last'.task # None /\ heap[last'.task].children = <<>>

ThreeToggles(t) == ToggleStatus(ToggleStatus(ToggleStatus(heap, t), t), t)[t].status

ToggleAnyLeafCycles ==
    /\ [](\A t \in Ids(heap) : heap[t].children = <<>> => ThreeToggles(t) = heap[t].status)
    /\ [][ToggledLeaf =>
             /\ heap[last'.task].status \in Statuses
             /\ heap'[last'.task].status = CycleStep(heap[last'.task].status)]_vars

(***************************************************************************)
(* C4 as amended: a toggle of a leaf whose status is OPEN, IN_PROGRESS or  *)
(* DONE moves it one step along OPEN -> IN_PROGRESS -> DONE -> OPEN, so    *)
(* three toggles of such a leaf restore its status; a leaf with any other  *)
(* status becomes IN_PROGRESS.                                             *)
(***************************************************************************)
ThreeTogglesRestore ==
    \A t \in Ids(heap) :
        (heap[t].children = <<>> /\ heap[t].status \in Statuses) =>
            ThreeToggles(t) = heap[t].status

ToggleCycles ==
    /\ []ThreeTogglesRestore
    /\ [][ToggledLeaf =>
             heap'[last'.task].status =
                 (IF heap[last'.task].status \in Statuses
                  THEN CycleStep(heap[last'.task].status)
                  ELSE IN_PROGRESS)]_vars

\* a toggle took a leaf from DONE round to OPEN, and the file holds the
\* saved forest
ToggleCyclesWitness ==
    /\ last.op = "toggle"
    /\ last.result = "saved"
    /\ heap[last.task].status = OPEN
    /\ disk = File(SaveText(heap, roots))

(***************************************************************************)
(* C5: a toggle of a task that has children changes nothing: no task, not  *)
(* the roots, not the file.                                                *)
(***************************************************************************)
ToggleInteriorNoOp ==
    [][(last'.op = "toggle" /\ last'.task # None /\ heap[last'.task].children # <<>>) =>
          (heap' = heap /\ roots' = roots /\ disk' = disk)]_vars

\* the last call was a toggle of a task with children
ToggleInteriorWitness ==
    /\ last.op = "toggle"
    /\ last.task # None
    /\ heap[last.task].children # <<>>
    /\ last.result = "return"

(***************************************************************************)
(* C6: every task's depth is its parent's depth + 1, and 0 without a       *)
(* parent; it is the number of the task's ancestors.                       *)
(***************************************************************************)
DepthInvariant ==
    \A t \in Ids(heap) :
        /\ heap[t].depth = (IF heap[t].parent = None THEN 0
                            ELSE heap[heap[t].parent].depth + 1)
        /\ heap[t].depth = Cardinality(AncestorsOf(heap, t))

\* a task was added under a loaded task of depth 1
DepthWitness ==
    /\ last.op = "ok"
    /\ last.result = "saved"
    /\ heap[Len(heap)].depth = 2
    /\ heap[Len(heap)].parent = last.task

(***************************************************************************)
(* C7 as claimed: every task's status is OPEN, IN_PROGRESS or DONE.        *)
(***************************************************************************)
StatusInEnum == \A t \in Ids(heap) : heap[t].status \in Statuses

(***************************************************************************)
(* C7 as amended: every task that has children has a status of the three;  *)
(* a task has another status only as long as it keeps the status text it   *)
(* was loaded with: no toggle and no add gives a task a status outside     *)
(* the three.                                                              *)
(***************************************************************************)
InteriorStatusInEnum == \A t \in Ids(heap) : HasChildren(t) => heap[t].status \in Statuses

StatusOutsideEnumOnlyLoaded ==
    /\ []InteriorStatusInEnum
    /\ [][last'.op # "on_mount" =>
             \A t \in Ids(heap') :
                 heap'[t].status \notin Statuses =>
                     (t \in Ids(heap) /\ heap'[t].status = heap[t].status)]_vars

\* a leaf keeps a loaded status outside the three while its sibling is toggled
StatusOutsideWitness ==
    /\ last.op = "toggle"
    /\ last.result = "saved"
    /\ \E t \in Ids(heap) :
          /\ t # last.task
          /\ heap[t].status \notin Statuses
          /\ heap[t].parent = heap[last.task].parent
          /\ heap[t].parent # None

(***************************************************************************)
(* C8: in a file that parses, a task line of depth d > 0 becomes the last  *)
(* child of the nearest task line of depth d - 1 before it, with no task   *)
(* line of depth < d between them; a task line of depth 0 becomes a root;  *)
(* roots and siblings keep the order of their lines.                       *)
(***************************************************************************)
Increasing(seq) == \A i, j \in 1..Len(seq) : i < j => seq[i] < seq[j]
Elements(seq) == {seq[i] : i \in 1..Len(seq)}

AttachByDepth ==
    (Mounted /\ mode = "running") =>
        LET L == TaskLines(disk.text)
        IN  /\ Len(heap) = Len(L)
            /\ Increasing(roots)
            /\ Elements(roots) = {i \in Ids(heap) : DepthOf(L[i]) = 0}
            /\ \A i \in Ids(heap) :
                 /\ heap[i].depth = DepthOf(L[i])
                 /\ Increasing(heap[i].children)
                 /\ Elements(heap[i].children) = {c \in Ids(heap) : heap[c].parent = i}
                 /\ DepthOf(L[i]) = 0 => heap[i].parent = None
                 /\ DepthOf(L[i]) > 0 =>
                      LET p == heap[i].parent
                      IN  /\ p \in 1..(i - 1)
                          /\ DepthOf(L[p]) = DepthOf(L[i]) - 1
                          /\ \A k \in (p + 1)..(i - 1) : DepthOf(L[k]) >= DepthOf(L[i])

\* a parsed file whose third task line, indented by a tab, joins the second
\* as a child of the first
AttachWitness ==
    /\ Mounted
    /\ mode = "running"
    /\ Len(heap) = 3
    /\ heap[2].parent = 1
    /\ heap[3].parent = 1
    /\ heap[1].children = <<2, 3>>
    /\ Head(TaskLines(disk.text)[3]) = "\t"

(***************************************************************************)
(* C9 as claimed: parsing fails with a format error exactly when some task *)
(* line has a depth d > 0 with no open task at depth d - 1.                *)
(***************************************************************************)
FailsIffTooDeep ==
    Mounted =>
        ((mode = "crashed" /\ FormatError) <=>
            \E i \in 1..Len(TaskLines(disk.text)) : TooDeepLine(TaskLines(disk.text), i))

(***************************************************************************)
(* C9 as amended: for a file whose task lines all have at least two ':',   *)
(* parsing fails exactly when some task line has a depth d > 0 with no     *)
(* open task at depth d - 1; the error is "Nested too deeply", names the   *)
(* first such raw line, and no forest is returned.                         *)
(***************************************************************************)
NestedTooDeeplyIffTooDeep ==
    LET L == TaskLines(disk.text)
    IN  (Mounted /\ \A i \in 1..Len(L) : ~FewColons(L, i)) =>
            /\ mode = "crashed" <=> \E i \in 1..Len(L) : TooDeepLine(L, i)
            /\ mode = "crashed" =>
                 /\ error = ValueError("Nested too deeply", L[FirstOffender(L)])
                 /\ heap = <<>>
                 /\ roots = <<>>

\* the parse failed on a line two levels below the task line before it
NestedTooDeeplyWitness ==
    LET L == TaskLines(disk.text)
    IN  /\ Mounted
        /\ mode = "crashed"
        /\ error.kind = "Nested too deeply"
        /\ \A i \in 1..Len(L) : ~FewColons(L, i)
        /\ FirstOffender(L) > 1
        /\ DepthOf(L[FirstOffender(L)]) = 2

(***************************************************************************)
(* C10 as claimed: when some task line has fewer than two ':', parsing     *)
(* fails with a format error that carries that raw line, and the           *)
(* application holds the forest it held before.                            *)
(***************************************************************************)
FewColonsLineIsReported ==
    LET L == TaskLines(disk.text)
    IN  Mounted =>
            \A i \in 1..Len(L) :
                FewColons(L, i) =>
                    /\ mode = "crashed"
                    /\ FormatError
                    /\ error.raw = L[i]
                    /\ heap = <<>>
                    /\ roots = <<>>

(***************************************************************************)
(* C10 as amended: when some task line has fewer than two ':', parsing     *)
(* fails with a format error that carries the first offending raw line of  *)
(* the file (the first task line that has fewer than two ':' or is nested  *)
(* too deeply), "Invalid line" if that line has fewer than two ':'; the    *)
(* application holds the forest it held before.                            *)
(***************************************************************************)
FirstOffenderIsReported ==
    LET L == TaskLines(disk.text)
    IN  (Mounted /\ \E i \in 1..Len(L) : FewColons(L, i)) =>
            /\ mode = "crashed"
            /\ FormatError
            /\ error.raw = L[FirstOffender(L)]
            /\ error.kind = "Invalid line" <=> FewColons(L, FirstOffender(L))
            /\ heap = <<>>
            /\ roots = <<>>

\* the parse failed on a line with fewer than two ':' that follows a task line
FirstOffenderWitness ==
    LET L == TaskLines(disk.text)
    IN  /\ Mounted
        /\ mode = "crashed"
        /\ error.kind = "Invalid line"
        /\ FirstOffender(L) > 1
        /\ Colons(error.raw) = 1

(***************************************************************************)
(* C11: the loaded forest does not depend on the status text of the lines  *)
(* of tasks that have children: a file that differs from the loaded one    *)
(* only in those status fields loads to the same forest, and in it every   *)
(* status of a task with children is the one derived from its children.    *)
(***************************************************************************)
\* status texts a line may carry instead of its own
OtherStatusTexts == {<<>>, OPEN, DONE, <<"x">>, <<" ", "IN_PROGRESS", " ">>}

\* the raw line with another text in its status field
WithStatusText(raw, text) ==
    LET i    == IndexOf(raw, ":")
        rest == SubSeq(raw, i + 1, Len(raw))
        j    == IndexOf(rest, ":")
    IN  SubSeq(raw, 1, i) \o text \o SubSeq(rest, j, Len(rest))

\* the lines of a file, the k-th task line given the status text f[k] for
\* every k in the domain of f; done task lines are counted in n
RECURSIVE RewriteStatusTexts(_, _, _)
RewriteStatusTexts(lines, n, f) ==
    IF lines = <<>> THEN <<>>
    ELSE LET line == Head(lines)
             raw  == RStripNL(line)
             end  == SubSeq(line, Len(raw) + 1, Len(line))
         IN  IF IsSkipped(raw)
             THEN line \o RewriteStatusTexts(Tail(lines), n, f)
             ELSE (IF (n + 1) \in DOMAIN f THEN WithStatusText(raw, f[n + 1]) \o end
                   ELSE line)
                  \o RewriteStatusTexts(Tail(lines), n + 1, f)

DerivedFromChildren(t) ==
    LET allDone == \A c \in ChildrenOf(t) : heap[c].status = DONE
        allOpen == \A c \in ChildrenOf(t) : heap[c].status = OPEN
    IN  heap[t].status = (IF allDone THEN DONE ELSE IF allOpen THEN OPEN ELSE IN_PROGRESS)

InteriorStatusTextIgnored ==
    (Mounted /\ mode = "running") =>
        LET interior == {t \in Ids(heap) : HasChildren(t)}
        IN  /\ \A t \in interior : DerivedFromChildren(t)
            /\ \A f \in [interior -> OtherStatusTexts] :
                 LET other == File(RewriteStatusTexts(ReadLines(disk.text), 0, f))
                     again == ParseTasksFromFile(other, "ok")
                 IN  /\ again.err = NoError
                     /\ again.heap = heap
                     /\ again.roots = roots

\* the file A:OPEN: with children B:DONE: and C:OPEN: is loaded, A is
\* IN_PROGRESS
InteriorStatusTextWitness ==
    /\ Mounted
    /\ mode = "running"
    /\ Len(heap) = 3
    /\ heap[1].children = <<2, 3>>
    /\ heap[1].status = IN_PROGRESS
    /\ heap[2].status = DONE
    /\ heap[3].status = OPEN
    /\ SplitFields(ContentOf(TaskLines(disk.text)[1]))[2] = OPEN

(***************************************************************************)
(* C12: adding a task with an accepted name and due adds exactly one new   *)
(* task: OPEN, without children, with the given name and due, last child   *)
(* of the parent with the parent as back-reference and depth               *)
(* parent.depth + 1, or last root without parent and depth 0; every task   *)
(* that existed keeps its name, due, depth, parent and relative order.     *)
(***************************************************************************)
\* what dismiss((name, due)) can hand to the worker
AcceptedInputs ==
    {<<Strip(p[1]), Strip(p[2])>> :
        p \in {q \in (TypedNames \cup {<<"b", " ", "c">>}) \X (TypedDues \cup {<<" ", "d">>}) :
                 DialogVerdict(q[1], q[2]) = "accepted"}}

Without(seq, t) == SelectSeq(seq, LAMBDA x : x # t)

\* h2, rs2 is h, rs with one task more, which is the task described
IsAddedTo(h, rs, parent, name, due, h2, rs2) ==
    LET new == Len(h) + 1
    IN  /\ Len(h2) = Len(h) + 1
        /\ h2[new].status = OPEN
        /\ h2[new].children = <<>>
        /\ h2[new].name = name
        /\ h2[new].due = due
        /\ h2[new].parent = parent
        /\ IF parent = None
           THEN /\ h2[new].depth = 0
                /\ rs2 = Append(rs, new)
           ELSE /\ h2[new].depth = h[parent].depth + 1
                /\ h2[parent].children = Append(h[parent].children, new)
                /\ rs2 = rs
        /\ \A t \in Ids(h) :
             /\ h2[t].name = h[t].name
             /\ h2[t].due = h[t].due
             /\ h2[t].depth = h[t].depth
             /\ h2[t].parent = h[t].parent
             /\ Without(h2[t].children, new) = h[t].children
        /\ Without(flatten_tasks(h2, rs2), new) = flatten_tasks(h, rs)

AddChildAddsOneTask ==
    /\ dialog.open =>
         \A inp \in AcceptedInputs :
            IsAddedTo(heap, roots, dialog.parent, inp[1], inp[2],
                      AddSubtaskHeap(heap, dialog.parent, inp[1], inp[2]),
                      AddSubtaskRoots(heap, roots, dialog.parent))
    /\ (last.op = "ok" /\ last.result \in {"saved", "OSError"}) =>
         LET new == Len(heap)
         IN  /\ heap[new].status = OPEN
             /\ heap[new].children = <<>>
             /\ heap[new].parent = last.task
             /\ \E inp \in AcceptedInputs : heap[new].name = inp[1] /\ heap[new].due = inp[2]
             /\ IF last.task = None
                THEN heap[new].depth = 0 /\ roots[Len(roots)] = new
                ELSE /\ heap[new].depth = heap[last.task].depth + 1
                     /\ heap[last.task].children[Len(heap[last.task].children)] = new
             /\ Cardinality({i \in 1..Len(flatten_tasks(heap, roots)) :
                               flatten_tasks(heap, roots)[i] = new}) = 1

\* a task was added as the second child of a task, and a task as second root
AddChildWitness ==
    /\ last.op = "ok"
    /\ last.result = "saved"
    /\ \/ last.task # None /\ Len(heap[last.task].children) = 2
       \/ last.task = None /\ Len(roots) = 2 /\ Len(heap) = 3

(***************************************************************************)
(* C13: the load of a file that exists but cannot be read returns the      *)
(* empty forest and no error, as for a file that does not exist.           *)
(***************************************************************************)
UnreadableLoadsEmpty ==
    (last.op = "on_mount" /\ disk.exists /\ fs = "unreadable") =>
        /\ last.result = "ok"
        /\ error = NoError
        /\ mode = "running"
        /\ heap = <<>>
        /\ roots = <<>>

(***************************************************************************)
(* C14: the load returns the empty forest and no error when the file does  *)
(* not exist, and when the file that is read has no task line (it is empty *)
(* or has only blank lines and '#' lines).                                 *)
(***************************************************************************)
NoTaskLineLoadsEmpty ==
    (/\ last.op = "on_mount"
     /\ \/ ~disk.exists
        \/ fs = "ok" /\ TaskLines(disk.text) = <<>>) =>
        /\ last.result = "ok"
        /\ error = NoError
        /\ mode = "running"
        /\ heap = <<>>
        /\ roots = <<>>

\* a file of two lines, a comment among them, was loaded
NoTaskLineWitness ==
    /\ last.op = "on_mount"
    /\ fs = "ok"
    /\ disk.exists
    /\ Len(ReadLines(disk.text)) = 2
    /\ \E i \in 1..2 : Contains(ReadLines(disk.text)[i], "#")
    /\ TaskLines(disk.text) = <<>>
    /\ heap = <<>>

(***************************************************************************)
(* C15 as claimed: for a forest of N >= 0 tasks the written text is        *)
(* exactly N lines, each ended by a newline, the i-th the i-th task in     *)
(* pre-order as name:status:due after 4*depth spaces.                      *)
(***************************************************************************)
Descendants(h, t) == {d \in Ids(h) : t \in AncestorsOf(h, d)}

\* p lists every task once, a task before its children, the tasks of a
\* children list (or of the roots) in stored order, and the whole subtree of
\* a task before its next sibling
InStoredOrder(p, h, cs) ==
    \A k \in 1..(Len(cs) - 1) :
        \A d \in {cs[k]} \cup Descendants(h, cs[k]) :
            PositionIn(p, d) < PositionIn(p, cs[k + 1])

IsPreOrder(p, h, rs) ==
    /\ \A t \in Ids(h) : \E i \in 1..Len(p) : p[i] = t
    /\ \A t \in Ids(h) : h[t].parent # None => PositionIn(p, h[t].parent) < PositionIn(p, t)
    /\ InStoredOrder(p, h, rs)
    /\ \A t \in Ids(h) : InStoredOrder(p, h, h[t].children)

PreOrders(h, rs) == {p \in [Ids(h) -> Ids(h)] : IsPreOrder(p, h, rs)}

WrittenLine(task) ==
    Spaces(4 * task.depth) \o task.name \o <<":">> \o task.status \o <<":">> \o task.due
        \o <<"\n">>

OneLinePerTask ==
    LET lines == ReadLines(disk.text)
    IN  /\ Len(lines) = Len(heap)
        /\ \E p \in PreOrders(heap, roots) :
             \A i \in 1..Len(heap) : lines[i] = WrittenLine(heap[p[i]])

SavedTextIsOneLinePerTask ==
    last.result = "saved" => OneLinePerTask

(***************************************************************************)
(* C15: for a forest of N >= 1 tasks the written text is exactly N lines,  *)
(* each ended by a newline, the i-th the i-th task in pre-order as         *)
(* name:status:due after 4*depth spaces; for the empty forest the written  *)
(* text is a single newline.                                               *)
(***************************************************************************)
SavedTextIsOneLinePerTaskOrNewline ==
    last.result = "saved" =>
        IF Len(heap) = 0 THEN disk.text = <<"\n">> ELSE OneLinePerTask

\* a forest with a task of depth 2, or with a child followed by a second
\* root, was saved
SavedTextWitness ==
    /\ last.result = "saved"
    /\ Len(heap) = 3
    /\ \/ \E t \in Ids(heap) : heap[t].depth = 2
       \/ Len(roots) = 2 /\ heap[roots[1]].children # <<>>

(***************************************************************************)
(* C16: an attempt to add a task whose name or due contains ':' is         *)
(* rejected before the tree is touched: no typed name or due with a ':'    *)
(* is accepted, and the OK that is rejected leaves every task, the roots   *)
(* and the file as they were.                                              *)
(***************************************************************************)
ColonIsRejected ==
    /\ [](\A name \in TypedNames, due \in TypedDues :
            (Contains(name, ":") \/ Contains(due, ":")) => DialogVerdict(name, due) # "accepted")
    /\ []((last.op = "ok" /\ last.result \in {"saved", "OSError"}) =>
            /\ ~Contains(heap[Len(heap)].name, ":")
            /\ ~Contains(heap[Len(heap)].due, ":"))
    /\ [][(last'.op = "ok" /\ last'.result = "colon") =>
            /\ heap' = heap
            /\ roots' = roots
            /\ disk' = disk]_vars

\* an OK was rejected for a ':' and the user was told, with tasks in the tree
ColonIsRejectedWitness ==
    /\ last.op = "ok"
    /\ last.result = "colon"
    /\ heap # <<>>
    /\ fs = "ok"
    /\ disk.exists
    /\ notified = <<"':' is not allowed">>

(***************************************************************************)
(* C17: after any toggles and adds of tasks with accepted name and due,    *)
(* the file that a save has written loads to a forest equal to the one in  *)
(* memory: no task is lost, re-parented or made a parse error.             *)
(***************************************************************************)
SavedForestReloads ==
    last.result = "saved" =>
        LET again == ParseTasksFromFile(disk, "ok")
        IN  /\ again.err = NoError
            /\ Len(again.heap) = Len(heap)
            /\ Forest(again.heap, again.roots) = Forest(heap, roots)
            /\ RootPositions(again.heap, again.roots) = RootPositions(heap, roots)

(***************************************************************************)
(* C18: after the load and any toggles and adds, a task with children is   *)
(* DONE iff every leaf of its subtree is DONE, and OPEN iff every leaf of  *)
(* its subtree is OPEN: recomputing the ancestors of the changed leaf      *)
(* keeps this true for the whole forest.                                   *)
(***************************************************************************)
LeavesUnder(t) == {d \in Descendants(heap, t) : heap[d].children = <<>>}

SubtreeRollUp ==
    \A t \in Ids(heap) :
        HasChildren(t) =>
            /\ heap[t].status = DONE <=> \A l \in LeavesUnder(t) : heap[l].status = DONE
            /\ heap[t].status = OPEN <=> \A l \in LeavesUnder(t) : heap[l].status = OPEN

\* the file, which the failing saves left as it was loaded, has only DONE
\* lines; a leaf two levels below a root was toggled, or a task was added
\* two levels below a root
SubtreeRollUpWitness ==
    /\ fs = "readonly"
    /\ disk.exists
    /\ \A i \in 1..Len(TaskLines(disk.text)) :
          SplitFields(ContentOf(TaskLines(disk.text)[i]))[2] = DONE
    /\ last.op \in {"toggle", "ok"}
    /\ last.result = "OSError"
    /\ \E t \in Ids(heap) :
          /\ heap[t].depth = 2
          /\ heap[t].status = OPEN
          /\ heap[heap[heap[t].parent].parent].status = OPEN

(***************************************************************************)
(* C19: a toggle of a leaf changes only the status of that leaf and the    *)
(* statuses of its ancestors: every other status, and the name, due,       *)
(* depth, parent and children of every task, stay as they were, and        *)
(* propagate_up does not write the status of the leaf it starts from.      *)
(***************************************************************************)
ToggleFrame ==
    /\ [](\A t \in Ids(heap) : IsLeaf(heap, t) => PropagateUp(heap, t)[t].status = heap[t].status)
    /\ [][ToggledLeaf =>
            LET leaf == last'.task
            IN  /\ Len(heap') = Len(heap)
                /\ roots' = roots
                /\ heap'[leaf].status = NextStatus(heap[leaf].status)
                /\ \A t \in Ids(heap) :
                     /\ heap'[t].name = heap[t].name
                     /\ heap'[t].due = heap[t].due
                     /\ heap'[t].depth = heap[t].depth
                     /\ heap'[t].parent = heap[t].parent
                     /\ heap'[t].children = heap[t].children
                     /\ t \notin ({leaf} \cup AncestorsOf(heap, leaf)) =>
                            heap'[t].status = heap[t].status]_vars

\* a leaf was toggled, its parent's status followed, and the tree has a task
\* that is neither the leaf nor one of its ancestors
ToggleFrameWitness ==
    /\ last.op = "toggle"
    /\ last.result = "saved"
    /\ last.task # None
    /\ heap[last.task].parent # None
    /\ heap[last.task].status = OPEN
    /\ heap[heap[last.task].parent].status = OPEN
    /\ \E t \in Ids(heap) : t # last.task /\ t \notin AncestorsOf(heap, last.task)

(***************************************************************************)
(* C20: the save action tells the user "Saved to <file>" only if the write *)
(* completed; when the write raises an OSError the user gets the error     *)
(* report and no success message.                                          *)
(***************************************************************************)
Notified(text) == \E i \in 1..Len(notified) : notified[i] = text

SaveReportsOutcome ==
    last.op = "save" =>
        /\ Notified("Saved to") => last.result = "saved"
        /\ last.result = "OSError" => (Notified("ERROR saving") /\ ~Notified("Saved to"))

====
